---- MODULE Spec2Model ----
(***************************************************************************)
(* Model of cpp-toolbox/unique_id_generator.                               *)
(*                                                                         *)
(* The repository holds three instance allocators (IdGenerator,            *)
(* UniqueIDGenerator, BoundedUniqueIDGenerator) and a process-wide counter *)
(* (GlobalUIDGenerator::get_id, and its legacy twin, the static            *)
(* UniqueIDGenerator::generate).  A consumer uses one of them; `variant`   *)
(* names the one exercised in a behaviour, and the fields below are the    *)
(* fields of that class, under the names the source gives them.            *)
(***************************************************************************)
EXTENDS Integers, Sequences, FiniteSets

\* ---------------------------------------------------------------- bounds

\* std::numeric_limits<unsigned int>::max(), scaled down from 2^32 - 1.
UIntMax == 4

\* Largest number of fresh identifiers a UniqueIDGenerator mints in the model
\* (its int counter is not followed up to INT_MAX).
MaxFresh == 3

\* Largest capacity a BoundedUniqueIDGenerator is constructed with.
MaxCapacity == 3

\* The most negative capacity the constructor is tried with is -NegCapacity.
NegCapacity == 5

\* The largest value of the int counter of the process-wide generators,
\* INT_MAX scaled down.
IntMax == 7

IntMin == 0 - IntMax - 1

\* Number of callers that call GlobalUIDGenerator::get_id concurrently, once
\* each.
NThreads == 3

\* Longest recorded run of get_id calls between two reclaim_id calls: long
\* enough for the IdGenerator counter to go once around.
MaxRun == UIntMax + 1

\* ---------------------------------------------------------------- state

VARIABLES
    variant,            \* the class exercised
    constructed,        \* an instance exists
    next_id,            \* IdGenerator / UniqueIDGenerator / Bounded: next_id
    used_ids,           \* std::unordered_set: ids held by callers
    reclaimed_ids,      \* IdGenerator / UniqueIDGenerator: std::queue
    max_value,          \* BoundedUniqueIDGenerator: capacity
    available_ids,      \* BoundedUniqueIDGenerator: std::queue
    current_id,         \* static counter of the process-wide generator
    last_generated_id,  \* static, the value handed out last
    last,               \* history: the last call, its argument and outcome
    run,                \* history: ids returned since the last reclaim_id call
    pending,            \* history: ids reclaimed and not reissued, oldest first
    issued,             \* history: ids ever returned by get_id
    wrapped,            \* history: IdGenerator's next_id was reset to 0
    fresh,              \* history: no reclaim_id call since construction
    minted,             \* history: ids issued by advancing next_id
    ahead,              \* history: <<x, y>>: y entered the free queue before
                        \* x did and neither has been issued since
    peak,               \* history: the most ids ever held at once
    locked,             \* concurrent callers: they hold a mutex around a call
    pc,                 \* concurrent callers: where each is in get_id
    reg,                \* concurrent callers: the value each holds in a register
    rets,               \* concurrent callers: what get_id returned to each
    overlap             \* history: pairs of callers whose calls overlapped

fields == <<next_id, used_ids, reclaimed_ids, max_value, available_ids>>
statics == <<current_id, last_generated_id>>
history == <<last, run, pending, issued, wrapped, fresh, minted, ahead, peak>>
callers == <<locked, pc, reg, rets, overlap>>
vars == <<variant, constructed, fields, statics, history, callers>>

Variants == {"IdGenerator", "UniqueIDGenerator", "BoundedUniqueIDGenerator",
             "GlobalUIDGenerator", "UniqueIDGenerator_static"}

Unbounded == {"IdGenerator", "UniqueIDGenerator"}
Strict == {"UniqueIDGenerator", "BoundedUniqueIDGenerator"}
Instance == Unbounded \cup {"BoundedUniqueIDGenerator"}
Singleton == {"GlobalUIDGenerator", "UniqueIDGenerator_static"}

\* ---------------------------------------------------------------- helpers

Range(s) == {s[i] : i \in 1..Len(s)}

Distinct(s) == \A i, j \in 1..Len(s) : i # j => s[i] # s[j]

\* s without every occurrence of x
Without(s, x) == SelectSeq(s, LAMBDA y : y # x)

\* the sequence 0, 1, ..., n-1
Iota(n) == [i \in 1..n |-> i - 1]

\* the pairs <<x, y>> with y before x in the sequence q
Before(q) == UNION {{<<q[i], q[j]>> : j \in 1..(i - 1)} : i \in 1..Len(q)}

Call(op, arg, ret, ok) == [op |-> op, arg |-> arg, ret |-> ret, ok |-> ok]

\* ---------------------------------------------------------------- IdGenerator

\* Fault: get_id reads the front of reclaimed_ids and does not pop it.
IdGenerator_get_id_nopop(n, used, q) ==
    IF q # <<>>
    THEN [id |-> Head(q), next_id |-> n,
          used_ids |-> used \cup {Head(q)}, reclaimed_ids |-> q]
    ELSE LET inc == (n + 1) % (UIntMax + 1)
         IN  [id |-> n, next_id |-> IF inc = UIntMax THEN 0 ELSE inc,
              used_ids |-> used \cup {n}, reclaimed_ids |-> q]

\* Fault: get_id lacks the reset of next_id at the maximum of unsigned int.
IdGenerator_get_id_nowrap(n, used, q) ==
    IF q # <<>>
    THEN [id |-> Head(q), next_id |-> n,
          used_ids |-> used \cup {Head(q)}, reclaimed_ids |-> Tail(q)]
    ELSE [id |-> n, next_id |-> (n + 1) % (UIntMax + 1),
          used_ids |-> used \cup {n}, reclaimed_ids |-> q]

\* unsigned int IdGenerator::get_id(): the front of reclaimed_ids when there is
\* one, else next_id++ with the counter reset to 0 when it reaches the maximum
\* of unsigned int.  The returned id is inserted into used_ids.
IdGenerator_get_id(n, used, q) ==
    IF q # <<>>
    THEN [id |-> Head(q), next_id |-> n,
          used_ids |-> used \cup {Head(q)}, reclaimed_ids |-> Tail(q)]
    ELSE LET inc == (n + 1) % (UIntMax + 1)
         IN  [id |-> n, next_id |-> IF inc = UIntMax THEN 0 ELSE inc,
              used_ids |-> used \cup {n}, reclaimed_ids |-> q]

\* Fault: reclaim_id pushes the id and does not erase it from used_ids.
IdGenerator_reclaim_id_noerase(id, used, q) ==
    IF id \in used
    THEN [used_ids |-> used, reclaimed_ids |-> Append(q, id)]
    ELSE [used_ids |-> used, reclaimed_ids |-> q]

\* Fault: reclaim_id erases the id and does not push it to reclaimed_ids.
IdGenerator_reclaim_id_nopush(id, used, q) ==
    IF id \in used
    THEN [used_ids |-> used \ {id}, reclaimed_ids |-> q]
    ELSE [used_ids |-> used, reclaimed_ids |-> q]

\* Fault: reclaim_id does not look the id up in used_ids.
IdGenerator_reclaim_id_unchecked(id, used, q) ==
    [used_ids |-> used \ {id}, reclaimed_ids |-> Append(q, id)]

\* void IdGenerator::reclaim_id(unsigned int id): moves a used id to the back
\* of reclaimed_ids; any other id is ignored.
IdGenerator_reclaim_id(id, used, q) ==
    IF id \in used
    THEN [used_ids |-> used \ {id}, reclaimed_ids |-> Append(q, id)]
    ELSE [used_ids |-> used, reclaimed_ids |-> q]

\* bool IdGenerator::is_used(unsigned int id) const
IdGenerator_is_used(id, used) == id \in used

\* ---------------------------------------------------------------- UniqueIDGenerator

\* Fault: get_id reuses the id reclaimed last (a stack, not a queue).
UniqueIDGenerator_get_id_lifo(n, used, q) ==
    IF q # <<>>
    THEN [id |-> q[Len(q)], next_id |-> n,
          used_ids |-> used \cup {q[Len(q)]},
          reclaimed_ids |-> SubSeq(q, 1, Len(q) - 1)]
    ELSE [id |-> n, next_id |-> n + 1,
          used_ids |-> used \cup {n}, reclaimed_ids |-> q]

\* Fault: get_id advances next_id also when it reuses a reclaimed id.
UniqueIDGenerator_get_id_alwaysinc(n, used, q) ==
    IF q # <<>>
    THEN [id |-> Head(q), next_id |-> n + 1,
          used_ids |-> used \cup {Head(q)}, reclaimed_ids |-> Tail(q)]
    ELSE [id |-> n, next_id |-> n + 1,
          used_ids |-> used \cup {n}, reclaimed_ids |-> q]

\* Fault: get_id reads next_id and does not advance it.
UniqueIDGenerator_get_id_noinc(n, used, q) ==
    IF q # <<>>
    THEN [id |-> Head(q), next_id |-> n,
          used_ids |-> used \cup {Head(q)}, reclaimed_ids |-> Tail(q)]
    ELSE [id |-> n, next_id |-> n,
          used_ids |-> used \cup {n}, reclaimed_ids |-> q]

\* int UniqueIDGenerator::get_id()
UniqueIDGenerator_get_id(n, used, q) ==
    IF q # <<>>
    THEN [id |-> Head(q), next_id |-> n,
          used_ids |-> used \cup {Head(q)}, reclaimed_ids |-> Tail(q)]
    ELSE [id |-> n, next_id |-> n + 1,
          used_ids |-> used \cup {n}, reclaimed_ids |-> q]

\* Fault: reclaim_id does not check that the id is in used_ids.
UniqueIDGenerator_reclaim_id_unchecked(id, used, q) ==
    [threw |-> FALSE, used_ids |-> used \ {id}, reclaimed_ids |-> Append(q, id)]

\* void UniqueIDGenerator::reclaim_id(int id_value): throws
\* std::invalid_argument unless id_value is in used_ids.
UniqueIDGenerator_reclaim_id(id, used, q) ==
    IF id \notin used
    THEN [threw |-> TRUE, used_ids |-> used, reclaimed_ids |-> q]
    ELSE [threw |-> FALSE, used_ids |-> used \ {id}, reclaimed_ids |-> Append(q, id)]

\* ---------------------------------------------------------------- BoundedUniqueIDGenerator

\* Fault: the constructor's loop runs to i <= max_value.
BoundedUniqueIDGenerator_ctor_inclusive(mv) ==
    IF mv <= 0
    THEN [threw |-> TRUE, max_value |-> 0, next_id |-> 0,
          available_ids |-> <<>>, used_ids |-> {}]
    ELSE [threw |-> FALSE, max_value |-> mv, next_id |-> 0,
          available_ids |-> Iota(mv + 1), used_ids |-> {}]

\* Fault: the constructor rejects max_value < 0 only.
BoundedUniqueIDGenerator_ctor_zero(mv) ==
    IF mv < 0
    THEN [threw |-> TRUE, max_value |-> 0, next_id |-> 0,
          available_ids |-> <<>>, used_ids |-> {}]
    ELSE [threw |-> FALSE, max_value |-> mv, next_id |-> 0,
          available_ids |-> Iota(mv), used_ids |-> {}]

\* Fault: the constructor's loop counts down from max_value - 1 to 0.
BoundedUniqueIDGenerator_ctor_descending(mv) ==
    IF mv <= 0
    THEN [threw |-> TRUE, max_value |-> 0, next_id |-> 0,
          available_ids |-> <<>>, used_ids |-> {}]
    ELSE [threw |-> FALSE, max_value |-> mv, next_id |-> 0,
          available_ids |-> [i \in 1..mv |-> mv - i], used_ids |-> {}]

\* BoundedUniqueIDGenerator::BoundedUniqueIDGenerator(int max_value): throws
\* std::invalid_argument when max_value <= 0, else pushes 0 .. max_value-1.
BoundedUniqueIDGenerator_ctor(mv) ==
    IF mv <= 0
    THEN [threw |-> TRUE, max_value |-> 0, next_id |-> 0,
          available_ids |-> <<>>, used_ids |-> {}]
    ELSE [threw |-> FALSE, max_value |-> mv, next_id |-> 0,
          available_ids |-> Iota(mv), used_ids |-> {}]

\* Fault: get_id reports exhaustion while one id is still available.
BoundedUniqueIDGenerator_get_id_offbyone(avail, used) ==
    IF Len(avail) <= 1
    THEN [threw |-> TRUE, id |-> 0, available_ids |-> avail, used_ids |-> used]
    ELSE [threw |-> FALSE, id |-> Head(avail),
          available_ids |-> Tail(avail), used_ids |-> used \cup {Head(avail)}]

\* Fault: get_id takes the id that entered available_ids last.
BoundedUniqueIDGenerator_get_id_lifo(avail, used) ==
    IF avail = <<>>
    THEN [threw |-> TRUE, id |-> 0, available_ids |-> avail, used_ids |-> used]
    ELSE [threw |-> FALSE, id |-> avail[Len(avail)],
          available_ids |-> SubSeq(avail, 1, Len(avail) - 1),
          used_ids |-> used \cup {avail[Len(avail)]}]

\* int BoundedUniqueIDGenerator::get_id(): throws std::runtime_error when
\* available_ids is empty.
BoundedUniqueIDGenerator_get_id(avail, used) ==
    IF avail = <<>>
    THEN [threw |-> TRUE, id |-> 0, available_ids |-> avail, used_ids |-> used]
    ELSE [threw |-> FALSE, id |-> Head(avail),
          available_ids |-> Tail(avail), used_ids |-> used \cup {Head(avail)}]

\* Fault: reclaim_id pushes the id and does not erase it from used_ids.
BoundedUniqueIDGenerator_reclaim_id_noerase(id, mv, avail, used) ==
    IF id < 0 \/ id >= mv \/ id \notin used
    THEN [threw |-> TRUE, available_ids |-> avail, used_ids |-> used]
    ELSE [threw |-> FALSE, available_ids |-> Append(avail, id), used_ids |-> used]

\* Fault: reclaim_id erases the id and does not push it to available_ids.
BoundedUniqueIDGenerator_reclaim_id_nopush(id, mv, avail, used) ==
    IF id < 0 \/ id >= mv \/ id \notin used
    THEN [threw |-> TRUE, available_ids |-> avail, used_ids |-> used]
    ELSE [threw |-> FALSE, available_ids |-> avail, used_ids |-> used \ {id}]

\* void BoundedUniqueIDGenerator::reclaim_id(int id_value)
BoundedUniqueIDGenerator_reclaim_id(id, mv, avail, used) ==
    IF id < 0 \/ id >= mv \/ id \notin used
    THEN [threw |-> TRUE, available_ids |-> avail, used_ids |-> used]
    ELSE [threw |-> FALSE, available_ids |-> Append(avail, id), used_ids |-> used \ {id}]

\* Fault: get_used_percentage returns the fraction, not multiplied by 100.
BoundedUniqueIDGenerator_get_used_percentage_fraction(used, mv) ==
    <<Cardinality(used), mv>>

\* double BoundedUniqueIDGenerator::get_used_percentage() const, as the pair
\* (numerator, denominator) of the percentage 100 * |used_ids| / max_value.
BoundedUniqueIDGenerator_get_used_percentage(used, mv) ==
    <<100 * Cardinality(used), mv>>

\* std::vector<int> BoundedUniqueIDGenerator::get_free_ids() const
BoundedUniqueIDGenerator_get_free_ids(avail) == avail

\* ---------------------------------------------------------------- process-wide counter

\* The outcomes of `current_id += 1; last_generated_id = current_id; return
\* current_id;` on an int: at INT_MAX the addition overflows, which is
\* undefined, and the call may leave and return any int.
IncrementOutcomes(cur) ==
    IF cur < IntMax
    THEN {[current_id |-> cur + 1, last_generated_id |-> cur + 1, ret |-> cur + 1]}
    ELSE {[current_id |-> v, last_generated_id |-> v, ret |-> v] :
              v \in IntMin..IntMax}

\* Fault: get_id returns the counter's value from before the increment.
GlobalUIDGenerator_get_id_postinc(cur) ==
    {[r EXCEPT !.ret = cur] : r \in IncrementOutcomes(cur)}

\* int GlobalUIDGenerator::get_id()
GlobalUIDGenerator_get_id(cur) == IncrementOutcomes(cur)

\* int UniqueIDGenerator::generate(), the legacy name of the same counter
UniqueIDGenerator_generate(cur) == IncrementOutcomes(cur)

\* ---------------------------------------------------------------- behaviour

\* Arguments reclaim_id is called with: every id the class can issue, and
\* ids it cannot (one below and one above the range).
IdGeneratorArgs == 0..UIntMax
UniqueIDGeneratorArgs == (0 - 1)..MaxFresh
BoundedArgs == (0 - 1)..MaxCapacity
CapacityArgs == (0 - NegCapacity)..MaxCapacity

NoCall == Call("none", 0, 0, TRUE)

Threads == 1..NThreads

Init ==
    /\ variant \in Variants
    /\ constructed = (variant # "BoundedUniqueIDGenerator")
    /\ next_id = 0
    /\ used_ids = {}
    /\ reclaimed_ids = <<>>
    /\ max_value = 0
    /\ available_ids = <<>>
    /\ current_id = 0
    /\ last_generated_id = 0
    /\ last = NoCall
    /\ run = <<>>
    /\ pending = <<>>
    /\ issued = {}
    /\ wrapped = FALSE
    /\ fresh = TRUE
    /\ minted = {}
    /\ ahead = {}
    /\ peak = 0
    /\ locked = TRUE
    /\ pc = [t \in Threads |-> "idle"]
    /\ reg = [t \in Threads |-> 0]
    /\ rets = [t \in Threads |-> 0]
    /\ overlap = {}

\* the free queue of the instance exercised
FreeQueue == IF variant = "BoundedUniqueIDGenerator" THEN available_ids ELSE reclaimed_ids

\* what a successful get_id that returned id adds to the history, once the
\* call has updated used_ids
NoteIssued(id) ==
    /\ run' = Append(run, id)
    /\ pending' = Without(pending, id)
    /\ issued' = issued \cup {id}
    /\ fresh' = fresh
    /\ ahead' = {p \in ahead : p[1] # id /\ p[2] # id}
    /\ peak' = IF Cardinality(used_ids') > peak THEN Cardinality(used_ids') ELSE peak

\* what a reclaim_id(id) call adds to the history; moved: id left used_ids
NoteReclaim(id, moved) ==
    /\ run' = <<>>
    /\ pending' = IF moved THEN Append(Without(pending, id), id) ELSE pending
    /\ issued' = issued
    /\ fresh' = FALSE
    /\ ahead' = IF moved
                THEN {p \in ahead : p[1] # id}
                         \cup {<<id, y>> : y \in Range(FreeQueue) \ {id}}
                ELSE ahead
    /\ peak' = peak

IdGeneratorGetId ==
    /\ variant = "IdGenerator"
    /\ Len(run) < MaxRun
    /\ LET r == IdGenerator_get_id(next_id, used_ids, reclaimed_ids)
       IN  /\ next_id' = r.next_id
           /\ used_ids' = r.used_ids
           /\ reclaimed_ids' = r.reclaimed_ids
           /\ last' = Call("get_id", 0, r.id, TRUE)
           /\ wrapped' = (wrapped \/ r.next_id < next_id)
           /\ minted' = IF reclaimed_ids = <<>> THEN minted \cup {r.id} ELSE minted
           /\ NoteIssued(r.id)
    /\ UNCHANGED callers
    /\ UNCHANGED <<variant, constructed, max_value, available_ids, statics>>

IdGeneratorReclaimId ==
    /\ variant = "IdGenerator"
    /\ \E id \in IdGeneratorArgs :
         LET r == IdGenerator_reclaim_id(id, used_ids, reclaimed_ids)
         IN  /\ used_ids' = r.used_ids
             /\ reclaimed_ids' = r.reclaimed_ids
             /\ last' = Call("reclaim_id", id, 0, TRUE)
             /\ NoteReclaim(id, r.used_ids # used_ids)
    /\ UNCHANGED callers
    /\ UNCHANGED <<variant, constructed, next_id, max_value, available_ids,
                   statics, wrapped, minted>>

UniqueIDGeneratorGetId ==
    /\ variant = "UniqueIDGenerator"
    /\ reclaimed_ids = <<>> => next_id < MaxFresh
    /\ LET r == UniqueIDGenerator_get_id(next_id, used_ids, reclaimed_ids)
       IN  /\ next_id' = r.next_id
           /\ used_ids' = r.used_ids
           /\ reclaimed_ids' = r.reclaimed_ids
           /\ last' = Call("get_id", 0, r.id, TRUE)
           /\ minted' = IF reclaimed_ids = <<>> THEN minted \cup {r.id} ELSE minted
           /\ NoteIssued(r.id)
    /\ UNCHANGED callers
    /\ UNCHANGED <<variant, constructed, max_value, available_ids, statics,
                   wrapped>>

UniqueIDGeneratorReclaimId ==
    /\ variant = "UniqueIDGenerator"
    /\ \E id \in UniqueIDGeneratorArgs :
         LET r == UniqueIDGenerator_reclaim_id(id, used_ids, reclaimed_ids)
         IN  /\ used_ids' = r.used_ids
             /\ reclaimed_ids' = r.reclaimed_ids
             /\ last' = Call("reclaim_id", id, 0, ~r.threw)
             /\ NoteReclaim(id, r.used_ids # used_ids)
    /\ UNCHANGED callers
    /\ UNCHANGED <<variant, constructed, next_id, max_value, available_ids,
                   statics, wrapped, minted>>

BoundedConstruct ==
    /\ variant = "BoundedUniqueIDGenerator"
    /\ ~constructed
    /\ \E mv \in CapacityArgs :
         LET r == BoundedUniqueIDGenerator_ctor(mv)
         IN  /\ constructed' = ~r.threw
             /\ max_value' = r.max_value
             /\ next_id' = r.next_id
             /\ available_ids' = r.available_ids
             /\ used_ids' = r.used_ids
             /\ last' = Call("construct", mv, 0, ~r.threw)
             /\ ahead' = Before(r.available_ids)
    /\ UNCHANGED callers
    /\ UNCHANGED <<variant, reclaimed_ids, statics, run, pending, issued,
                   wrapped, fresh, minted, peak>>

BoundedGetId ==
    /\ variant = "BoundedUniqueIDGenerator"
    /\ constructed
    /\ LET r == BoundedUniqueIDGenerator_get_id(available_ids, used_ids)
       IN  /\ available_ids' = r.available_ids
           /\ used_ids' = r.used_ids
           /\ last' = Call("get_id", 0, r.id, ~r.threw)
           /\ IF r.threw
              THEN UNCHANGED <<run, pending, issued, fresh, ahead, peak>>
              ELSE NoteIssued(r.id)
    /\ UNCHANGED callers
    /\ UNCHANGED <<variant, constructed, next_id, reclaimed_ids, max_value,
                   statics, wrapped, minted>>

BoundedReclaimId ==
    /\ variant = "BoundedUniqueIDGenerator"
    /\ constructed
    /\ \E id \in BoundedArgs :
         LET r == BoundedUniqueIDGenerator_reclaim_id(id, max_value,
                                                      available_ids, used_ids)
         IN  /\ available_ids' = r.available_ids
             /\ used_ids' = r.used_ids
             /\ last' = Call("reclaim_id", id, 0, ~r.threw)
             /\ NoteReclaim(id, r.used_ids # used_ids)
    /\ UNCHANGED callers
    /\ UNCHANGED <<variant, constructed, next_id, reclaimed_ids, max_value,
                   statics, wrapped, minted>>

BoundedGetUsedPercentage ==
    /\ variant = "BoundedUniqueIDGenerator"
    /\ constructed
    /\ last' = Call("get_used_percentage", 0,
                    BoundedUniqueIDGenerator_get_used_percentage(used_ids, max_value),
                    TRUE)
    /\ UNCHANGED callers
    /\ UNCHANGED <<variant, constructed, fields, statics, run, pending, issued,
                   wrapped, fresh, minted, ahead, peak>>

\* One call of the process-wide counter; the model follows it up to the call
\* that overflows the int and stops there.
GlobalGetId ==
    /\ variant = "GlobalUIDGenerator"
    /\ Len(run) <= IntMax
    /\ \E r \in GlobalUIDGenerator_get_id(current_id) :
         /\ current_id' = r.current_id
         /\ last_generated_id' = r.last_generated_id
         /\ last' = Call("get_id", 0, r.ret, TRUE)
         /\ run' = Append(run, r.ret)
    /\ UNCHANGED callers
    /\ UNCHANGED <<variant, constructed, fields, pending, issued, wrapped, fresh,
                   minted, ahead, peak>>

StaticGenerate ==
    /\ variant = "UniqueIDGenerator_static"
    /\ Len(run) <= IntMax
    /\ \E r \in UniqueIDGenerator_generate(current_id) :
         /\ current_id' = r.current_id
         /\ last_generated_id' = r.last_generated_id
         /\ last' = Call("generate", 0, r.ret, TRUE)
         /\ run' = Append(run, r.ret)
    /\ UNCHANGED callers
    /\ UNCHANGED <<variant, constructed, fields, pending, issued, wrapped, fresh,
                   minted, ahead, peak>>

Next ==
    \/ IdGeneratorGetId
    \/ IdGeneratorReclaimId
    \/ UniqueIDGeneratorGetId
    \/ UniqueIDGeneratorReclaimId
    \/ BoundedConstruct
    \/ BoundedGetId
    \/ BoundedReclaimId
    \/ BoundedGetUsedPercentage
    \/ GlobalGetId
    \/ StaticGenerate

Spec == Init /\ [][Next]_vars

\* ---------------------------------------------------------------- concurrent callers

\* GlobalUIDGenerator::get_id() called by NThreads callers at once, once each.
\* The class takes no lock, so a call is its four accesses to the statics:
\*   current_id += 1            the load, then the store of the sum
\*   last_generated_id = ...    a store
\*   return current_id          the value handed back
\* The last two read current_id again, or use the sum the caller still holds
\* in a register: both are outcomes a build can produce.  With `locked` the
\* callers keep a mutex of their own around each call.

\* Fault: the store writes back the value loaded, without the increment.
Incremented_lost(v) == v

\* the sum of `current_id += 1`
Incremented(v) == v + 1

MidCall(t) == pc[t] \in {"loaded", "stored", "noted"}

InitRace ==
    /\ variant = "GlobalUIDGenerator"
    /\ constructed = TRUE
    /\ next_id = 0
    /\ used_ids = {}
    /\ reclaimed_ids = <<>>
    /\ max_value = 0
    /\ available_ids = <<>>
    /\ current_id = 0
    /\ last_generated_id = 0
    /\ last = NoCall
    /\ run = <<>>
    /\ pending = <<>>
    /\ issued = {}
    /\ wrapped = FALSE
    /\ fresh = TRUE
    /\ minted = {}
    /\ ahead = {}
    /\ peak = 0
    /\ locked \in BOOLEAN
    /\ pc = [t \in Threads |-> "idle"]
    /\ reg = [t \in Threads |-> 0]
    /\ rets = [t \in Threads |-> 0]
    /\ overlap = {}

\* current_id += 1: the load
RaceLoad(t) ==
    /\ pc[t] = "idle"
    /\ locked => \A u \in Threads : ~MidCall(u)
    /\ current_id < IntMax
    /\ reg' = [reg EXCEPT ![t] = current_id]
    /\ pc' = [pc EXCEPT ![t] = "loaded"]
    /\ overlap' = overlap \cup {{t, u} : u \in {v \in Threads : MidCall(v)}}
    /\ UNCHANGED <<variant, constructed, fields, statics, history, locked, rets>>

\* current_id += 1: the store
RaceStore(t) ==
    /\ pc[t] = "loaded"
    /\ current_id' = Incremented(reg[t])
    /\ reg' = [reg EXCEPT ![t] = Incremented(reg[t])]
    /\ pc' = [pc EXCEPT ![t] = "stored"]
    /\ UNCHANGED <<variant, constructed, fields, last_generated_id, history,
                   locked, rets, overlap>>

\* last_generated_id = current_id
RaceNote(t) ==
    /\ pc[t] = "stored"
    /\ last_generated_id' \in {reg[t], current_id}
    /\ pc' = [pc EXCEPT ![t] = "noted"]
    /\ UNCHANGED <<variant, constructed, fields, current_id, history,
                   locked, reg, rets, overlap>>

\* return current_id
RaceReturn(t) ==
    /\ pc[t] = "noted"
    /\ \E v \in {reg[t], current_id} : rets' = [rets EXCEPT ![t] = v]
    /\ pc' = [pc EXCEPT ![t] = "done"]
    /\ UNCHANGED <<variant, constructed, fields, statics, history,
                   locked, reg, overlap>>

NextRace ==
    \E t \in Threads :
        \/ RaceLoad(t)
        \/ RaceStore(t)
        \/ RaceNote(t)
        \/ RaceReturn(t)

SpecRace == InitRace /\ [][NextRace]_vars

\* ---------------------------------------------------------------- properties

\* the step is a call of op
Calls(op) == last'.op = op

\* C1 (as stated): in every instance allocator, the ids returned by successive
\* get_id calls with no reclaim_id call in between are pairwise distinct.
C1_UniquenessAsStated ==
    variant \in Instance => Distinct(run)

\* C1 (amended): the ids returned by successive get_id calls with no
\* reclaim_id call in between are pairwise distinct in UniqueIDGenerator and
\* BoundedUniqueIDGenerator, and in IdGenerator as long as its counter has not
\* been reset to 0 by the wrap-around.
C1_Uniqueness ==
    (variant \in Instance /\ ~wrapped) => Distinct(run)

\* a run of an IdGenerator that mixes recycled ids, before any wrap-around
C1_Witness ==
    /\ variant = "IdGenerator"
    /\ ~wrapped
    /\ Len(run) >= 2
    /\ run[1] > run[2]

\* C2: in UniqueIDGenerator and BoundedUniqueIDGenerator a successful get_id
\* never returns an id that is in used_ids when it is called, and used_ids
\* grows by exactly one id.
C2_NoCollision ==
    [][(variant \in Strict /\ Calls("get_id") /\ last'.ok) =>
          /\ last'.ret \notin used_ids
          /\ used_ids' = used_ids \cup {last'.ret}
          /\ Cardinality(used_ids') = Cardinality(used_ids) + 1]_vars

\* a UniqueIDGenerator has just reissued a reclaimed id while others are held
C2_Witness ==
    /\ variant = "UniqueIDGenerator"
    /\ last.op = "get_id"
    /\ ~fresh
    /\ last.ret + 1 < next_id
    /\ Cardinality(used_ids) >= 2

\* C3: a constructed BoundedUniqueIDGenerator of capacity C always has
\* |used_ids| + |available_ids| = C and used_ids \cup available_ids = 0..C-1,
\* after construction and after every call, throwing or not.
C3_Conservation ==
    (variant = "BoundedUniqueIDGenerator" /\ constructed) =>
        /\ Cardinality(used_ids) + Len(available_ids) = max_value
        /\ used_ids \cup Range(available_ids) = 0..(max_value - 1)

\* a reclaim_id has just thrown with ids both held and free
C3_Witness ==
    /\ variant = "BoundedUniqueIDGenerator"
    /\ last.op = "reclaim_id"
    /\ ~last.ok
    /\ used_ids # {}
    /\ available_ids # <<>>

\* C4: BoundedUniqueIDGenerator::get_id throws exactly when available_ids is
\* empty, which is exactly when |used_ids| = C; on a fresh allocator the first
\* C calls succeed with C distinct ids of 0..C-1 and the next call throws.
C4_Exhaustion ==
    [][(variant = "BoundedUniqueIDGenerator" /\ Calls("get_id")) =>
          /\ last'.ok <=> available_ids # <<>>
          /\ available_ids = <<>> <=> Cardinality(used_ids) = max_value
          /\ fresh => (last'.ok <=> Len(run) < max_value)
          /\ fresh' => /\ Distinct(run')
                       /\ Range(run') \subseteq 0..(max_value - 1)
                       /\ Range(run') = used_ids'
                       /\ Len(run') <= max_value]_vars

\* the call after the first C calls of a fresh allocator has just thrown
C4_Witness ==
    /\ variant = "BoundedUniqueIDGenerator"
    /\ fresh
    /\ last.op = "get_id"
    /\ ~last.ok
    /\ Len(run) = max_value
    /\ max_value >= 2

\* C5: in IdGenerator and UniqueIDGenerator, get_id with reclaimed_ids
\* non-empty returns the id reclaimed earliest among those pending and leaves
\* next_id alone; with reclaimed_ids empty it returns next_id and moves the
\* counter; so get_id right after the only pending reclaim of X returns X.
C5_ReuseBeforeGrowth ==
    [][(variant \in Unbounded /\ Calls("get_id")) =>
          /\ reclaimed_ids # <<>> =>
                /\ pending # <<>>
                /\ last'.ret = Head(pending)
                /\ next_id' = next_id
          /\ reclaimed_ids = <<>> =>
                /\ last'.ret = next_id
                /\ next_id' # next_id
          /\ (last.op = "reclaim_id" /\ pending = <<last.arg>>) =>
                last'.ret = last.arg]_vars

\* an IdGenerator has just reissued the oldest of several pending ids
C5_Witness ==
    /\ variant = "IdGenerator"
    /\ last.op = "get_id"
    /\ pending # <<>>
    /\ last.ret \in used_ids

\* C6: in UniqueIDGenerator and BoundedUniqueIDGenerator reclaim_id(id)
\* succeeds exactly when id is in used_ids; it throws for an id never issued,
\* for one reclaimed and not reissued and (bounded) for one outside
\* 0..capacity-1, and a throwing call changes no field; a successful call
\* moves id from used_ids to the back of the free queue.
C6_InvalidReclaimRejected ==
    [][(variant \in Strict /\ Calls("reclaim_id")) =>
          /\ last'.ok <=> last'.arg \in used_ids
          /\ last'.arg \notin issued => ~last'.ok
          /\ last'.arg \in Range(pending) => ~last'.ok
          /\ (variant = "BoundedUniqueIDGenerator"
                /\ last'.arg \notin 0..(max_value - 1)) => ~last'.ok
          /\ ~last'.ok => UNCHANGED fields
          /\ last'.ok =>
                /\ used_ids' = used_ids \ {last'.arg}
                /\ FreeQueue' = Append(FreeQueue, last'.arg)
                /\ UNCHANGED <<next_id, max_value>>]_vars

\* a UniqueIDGenerator has just refused the second reclaim of the same id
C6_Witness ==
    /\ variant = "UniqueIDGenerator"
    /\ last.op = "reclaim_id"
    /\ ~last.ok
    /\ last.arg \in Range(pending)
    /\ used_ids # {}

\* C7: a BoundedUniqueIDGenerator::get_id that throws leaves used_ids and
\* available_ids as they were, and the get_id that follows a successful
\* reclaim_id(x) made in an exhausted state succeeds and returns x.
C7_CleanExhaustionAndRetry ==
    [][(variant = "BoundedUniqueIDGenerator" /\ Calls("get_id")) =>
          /\ ~last'.ok => UNCHANGED <<used_ids, available_ids, max_value, next_id>>
          /\ (/\ last.op = "reclaim_id"
              /\ last.ok
              /\ Cardinality(used_ids) = max_value - 1) =>
                (last'.ok /\ last'.ret = last.arg)]_vars

\* the retry after a reclaim has just exhausted the allocator again
C7_Witness ==
    /\ variant = "BoundedUniqueIDGenerator"
    /\ last.op = "get_id"
    /\ last.ok
    /\ ~fresh
    /\ run = <<last.ret>>
    /\ available_ids = <<>>
    /\ max_value >= 2

\* C8: constructing a BoundedUniqueIDGenerator with a capacity <= 0 throws and
\* yields no allocator; with a capacity C > 0 it succeeds with available_ids
\* = 0, 1, ..., C-1 in this order and used_ids empty.
C8_ConstructionValidation ==
    (variant = "BoundedUniqueIDGenerator" /\ last.op = "construct") =>
        /\ last.ok <=> last.arg > 0
        /\ ~last.ok => ~constructed
        /\ last.ok =>
              /\ constructed
              /\ max_value = last.arg
              /\ used_ids = {}
              /\ Len(available_ids) = last.arg
              /\ \A i \in 1..last.arg : available_ids[i] = i - 1

\* an allocator of capacity 3 or more has just been constructed
C8_Witness ==
    /\ variant = "BoundedUniqueIDGenerator"
    /\ last.op = "construct"
    /\ last.ok
    /\ last.arg >= 3

\* C9: the k-th call of the process-wide counter returns k, for every k up to
\* the largest int: the first call returns 1 and each call returns more than
\* every earlier one.
C9_SingletonMonotonic ==
    variant \in Singleton =>
        /\ \A k \in 1..Len(run) : k <= IntMax => run[k] = k
        /\ \A j, k \in 1..Len(run) : (j < k /\ k <= IntMax) => run[j] < run[k]
        /\ Len(run) <= IntMax =>
              (current_id = Len(run) /\ last_generated_id = Len(run))

\* the call that returns the largest int has been made
C9_Witness ==
    /\ variant = "GlobalUIDGenerator"
    /\ Len(run) = IntMax
    /\ last.ret = IntMax

\* C10: in every instance allocator no id is at once in used_ids and in the
\* free queue.
C10_Disjoint ==
    variant \in Instance => used_ids \cap Range(FreeQueue) = {}

\* an IdGenerator past its wrap-around with ids both held and free, after a
\* reclaim_id of an id that was not held
C10_Witness ==
    /\ variant = "IdGenerator"
    /\ wrapped
    /\ last.op = "reclaim_id"
    /\ last.arg \notin Range(reclaimed_ids)
    /\ used_ids # {}
    /\ reclaimed_ids # <<>>

\* the number of places of the sequence q that hold x
Count(q, x) == Cardinality({i \in 1..Len(q) : q[i] = x})

\* C11: in every instance allocator an id once returned by get_id is, after
\* every later call, in exactly one of used_ids and the free queue: never in
\* both, never in neither, and in the queue at most once.
C11_NoIdLost ==
    variant \in Instance =>
        \A id \in issued :
            \/ id \in used_ids /\ Count(FreeQueue, id) = 0
            \/ id \notin used_ids /\ Count(FreeQueue, id) = 1

\* a BoundedUniqueIDGenerator with issued ids both held and back in the queue
C11_Witness ==
    /\ variant = "BoundedUniqueIDGenerator"
    /\ issued \cap used_ids # {}
    /\ issued \cap Range(available_ids) # {}
    /\ Cardinality(issued) >= 3

\* C12: IdGenerator::reclaim_id never fails; called with an id that is not in
\* used_ids it leaves next_id, used_ids and reclaimed_ids as they were, so an
\* id reclaimed twice is in reclaimed_ids once.
C12_LenientReclaim ==
    [][(variant = "IdGenerator" /\ Calls("reclaim_id")) =>
          /\ last'.ok
          /\ last'.arg \notin used_ids =>
                UNCHANGED <<next_id, used_ids, reclaimed_ids>>
          /\ last'.arg \in used_ids =>
                /\ used_ids' = used_ids \ {last'.arg}
                /\ reclaimed_ids' = Append(reclaimed_ids, last'.arg)
          /\ Count(reclaimed_ids', last'.arg) <= 1]_vars

\* an id already waiting in reclaimed_ids, behind which another id was
\* reclaimed, has just been reclaimed again
C12_Witness ==
    /\ variant = "IdGenerator"
    /\ last.op = "reclaim_id"
    /\ Count(reclaimed_ids, last.arg) = 1
    /\ reclaimed_ids[Len(reclaimed_ids)] # last.arg

\* C13: IdGenerator::get_id never fails, and the call whose increment brings
\* next_id to the maximum of unsigned int resets it to 0, so that next_id is
\* never left at the maximum and the next fresh id is 0.
C13_WrapAround ==
    [][(variant = "IdGenerator" /\ Calls("get_id")) =>
          /\ last'.ok
          /\ next_id' \in 0..(UIntMax - 1)
          /\ (reclaimed_ids = <<>> /\ next_id + 1 = UIntMax) =>
                (last'.ret = next_id /\ next_id' = 0)
          /\ (reclaimed_ids = <<>> /\ next_id + 1 < UIntMax) =>
                (last'.ret = next_id /\ next_id' = next_id + 1)
          /\ (wrapped /\ reclaimed_ids = <<>> /\ next_id = 0) =>
                (last'.ret = 0 /\ next_id' = 1)]_vars

\* after the reset, with no reclaim ever made, get_id has minted 0 again
C13_Witness ==
    /\ variant = "IdGenerator"
    /\ wrapped
    /\ fresh
    /\ last.op = "get_id"
    /\ last.ret = 0
    /\ next_id = 1

\* next_id is the smallest id never issued by advancing the counter
SmallestUnminted ==
    /\ next_id \notin minted
    /\ \A i \in 0..(next_id - 1) : i \in minted

\* C14 (as stated): in every allocator next_id starts at 0, never decreases
\* across a get_id or reclaim_id call, and is at all times the smallest id
\* never yet issued by advancing the counter.
C14_MonotonicAsStated ==
    [][(variant \in Instance) =>
          (next_id' >= next_id /\ SmallestUnminted')]_vars

\* C14 (amended): next_id starts at 0 and never decreases, except that
\* IdGenerator::get_id resets it to 0 at the wrap-around; until that reset it
\* is the smallest id never yet issued by advancing the counter.
C14_Monotonic ==
    /\ variant \in Instance => (next_id = 0 /\ SmallestUnminted)
    /\ [][(variant \in Instance) =>
             /\ \/ next_id' >= next_id
                \/ /\ variant = "IdGenerator"
                   /\ Calls("get_id")
                   /\ next_id + 1 = UIntMax
                   /\ next_id' = 0
             /\ ~wrapped' => SmallestUnminted']_vars

\* an IdGenerator one id short of the wrap-around, with reclaims made
C14_Witness ==
    /\ variant = "IdGenerator"
    /\ ~wrapped
    /\ next_id = UIntMax - 1
    /\ last.op = "get_id"
    /\ ~fresh

\* C15: on a fresh BoundedUniqueIDGenerator of capacity C the first C get_id
\* calls return 0, 1, ..., C-1 in this order; with the pool drained,
\* reclaim_id(k) of a held k followed by get_id returns k, and the get_id after
\* that throws.
C15_AscendingFirstIssue ==
    [][(variant = "BoundedUniqueIDGenerator" /\ Calls("get_id")) =>
          /\ (fresh /\ Len(run) < max_value) =>
                (last'.ok /\ last'.ret = Len(run))
          /\ fresh' => \A i \in 1..Len(run') : run'[i] = i - 1
          /\ (/\ last.op = "reclaim_id"
              /\ last.ok
              /\ available_ids = <<last.arg>>) =>
                (last'.ok /\ last'.ret = last.arg /\ available_ids' = <<>>)
          /\ (/\ last.op = "get_id"
              /\ last.ok
              /\ run = <<last.ret>>
              /\ Cardinality(used_ids) = max_value) => ~last'.ok]_vars

\* capacity 3: after 0, 1, 2, reclaim_id(1) and get_id -> 1, get_id has thrown
C15_Witness ==
    /\ variant = "BoundedUniqueIDGenerator"
    /\ max_value = 3
    /\ last.op = "get_id"
    /\ ~last.ok
    /\ run = <<1>>
    /\ issued = {0, 1, 2}
    /\ used_ids = {0, 1, 2}

\* the percentage num / den of a constructed BoundedUniqueIDGenerator
UsedPercentage == BoundedUniqueIDGenerator_get_used_percentage(used_ids, max_value)

\* C16: in a constructed BoundedUniqueIDGenerator of capacity C,
\* 0 <= |used_ids| <= C, so get_used_percentage = 100 * |used_ids| / C lies in
\* 0..100; it is 0 right after construction and 100 exactly when no id is
\* available, and calling it changes no field.
C16_UsedPercentageBound ==
    [][(variant = "BoundedUniqueIDGenerator" /\ constructed') =>
          /\ Cardinality(used_ids') \in 0..max_value'
          /\ UsedPercentage'[2] > 0
          /\ UsedPercentage'[1] >= 0
          /\ UsedPercentage'[1] <= 100 * UsedPercentage'[2]
          /\ UsedPercentage'[1] * max_value' = 100 * Cardinality(used_ids') * UsedPercentage'[2]
          /\ UsedPercentage'[1] = 100 * UsedPercentage'[2] <=> available_ids' = <<>>
          /\ Calls("construct") => UsedPercentage'[1] = 0
          /\ Calls("get_used_percentage") =>
                /\ last'.ret = UsedPercentage
                /\ UNCHANGED <<fields, constructed>>]_vars

\* get_used_percentage has just returned 100 * 2 / 3
C16_Witness ==
    /\ variant = "BoundedUniqueIDGenerator"
    /\ last.op = "get_used_percentage"
    /\ last.ret = <<200, 3>>

\* C17: in IdGenerator, once next_id has wrapped to 0, get_id can return an
\* id that is still in used_ids; it does so only with reclaimed_ids empty, and
\* before the first wrap it never returns a held id.
C17_CollisionAfterWrap ==
    [][(variant = "IdGenerator" /\ Calls("get_id")) =>
          /\ last'.ret \in used_ids => (wrapped /\ reclaimed_ids = <<>>)
          /\ ~wrapped => (last'.ret \notin used_ids
                            /\ Cardinality(used_ids') = Cardinality(used_ids) + 1)]_vars

\* with no reclaim ever made, get_id has returned an id a second time: the
\* first holder still holds it
C17_Witness ==
    /\ variant = "IdGenerator"
    /\ wrapped
    /\ fresh
    /\ last.op = "get_id"
    /\ Count(run, last.ret) = 2
    /\ Cardinality(used_ids) < Len(run)

\* C18: BoundedUniqueIDGenerator::get_id returns the front of the ids
\* get_free_ids lists, so ids are issued in the order they entered the queue:
\* an id reclaimed while others are available is not returned by the next
\* get_id, and is reissued only after all those that were available when it
\* was reclaimed.
C18_ReuseQueuedBehindPool ==
    [][(variant = "BoundedUniqueIDGenerator" /\ Calls("get_id") /\ last'.ok) =>
          /\ last'.ret = Head(BoundedUniqueIDGenerator_get_free_ids(available_ids))
          /\ \A p \in ahead : p[1] # last'.ret
          /\ (/\ last.op = "reclaim_id"
              /\ last.ok
              /\ Len(available_ids) >= 2) => last'.ret # last.arg]_vars

\* capacity 3: get_id -> 0, reclaim_id(0), get_id -> 1, with 0 behind 2
C18_Witness ==
    /\ variant = "BoundedUniqueIDGenerator"
    /\ max_value = 3
    /\ last.op = "get_id"
    /\ last.ret = 1
    /\ used_ids = {1}
    /\ BoundedUniqueIDGenerator_get_free_ids(available_ids) = <<2, 0>>

\* C19: in every reachable state of UniqueIDGenerator, used_ids and
\* reclaimed_ids together hold each of 0..next_id-1 exactly once and nothing
\* else, so next_id = |used_ids| + |reclaimed_ids|; next_id is the largest
\* number of ids ever held at once, and every id returned is below it.
C19_Density ==
    variant = "UniqueIDGenerator" =>
        /\ \A i \in 0..(next_id - 1) :
              \/ i \in used_ids /\ Count(reclaimed_ids, i) = 0
              \/ i \notin used_ids /\ Count(reclaimed_ids, i) = 1
        /\ used_ids \cup Range(reclaimed_ids) \subseteq 0..(next_id - 1)
        /\ next_id = Cardinality(used_ids) + Len(reclaimed_ids)
        /\ next_id = peak
        /\ \A id \in issued : id < peak
        /\ last.op = "get_id" => last.ret < peak

\* a UniqueIDGenerator that minted three ids, with ids held, ids waiting and
\* a reclaimed id just reissued
C19_Witness ==
    /\ variant = "UniqueIDGenerator"
    /\ next_id >= 3
    /\ used_ids # {}
    /\ reclaimed_ids # <<>>
    /\ last.op = "get_id"
    /\ last.ret + 1 < next_id
    /\ Cardinality(used_ids) < peak

\* C20: when callers run GlobalUIDGenerator::get_id concurrently with no
\* mutual exclusion, two calls can return the same id (the increment of one
\* is lost, or both read the counter after both increments); two calls
\* return the same id only in a run where calls overlapped, so with each call
\* made under mutual exclusion all returned ids differ and lie in 1..k after
\* k calls.
C20_NotThreadSafe ==
    /\ \A t, u \in Threads :
          (t # u /\ pc[t] = "done" /\ pc[u] = "done" /\ rets[t] = rets[u])
              => (overlap # {} /\ ~locked)
    /\ locked =>
          /\ overlap = {}
          /\ \A t \in Threads : pc[t] = "done" => rets[t] \in 1..current_id
          /\ \A t \in Threads : MidCall(t) => reg[t] \in {current_id - 1, current_id}

\* two unsynchronised calls have both returned 1 and the counter is 1: one
\* increment was lost
C20_Witness ==
    /\ ~locked
    /\ pc[1] = "done"
    /\ pc[2] = "done"
    /\ rets[1] = 1
    /\ rets[2] = 1
    /\ pc[3] = "idle"
    /\ current_id = 1

====
